---- MODULE Spec2Model ----
(***************************************************************************)
(* KeyOps (src/key_ops.rs): a set of JSON Web Key operations stored as a   *)
(* u16 bit mask, with its Debug, Clone, PartialEq, Serialize and           *)
(* Deserialize implementations, all generated by impl_key_ops!.            *)
(*                                                                         *)
(* A KeyOps value is modelled by its bits (a number in 0..65535); strings  *)
(* are TLA+ strings, a Vec<String> and the elements handed to a serializer *)
(* are sequences of strings.                                               *)
(***************************************************************************)
EXTENDS Integers, Sequences, FiniteSets

VARIABLES
    ops,          \* a KeyOps value (the `ops` of the tests and of deserialize)
    cloned_ops,   \* a second KeyOps value (the `cloned_ops` of tests::clone_eq)
    op_strs,      \* the Vec<String> handed to the element loop of deserialize
    result,       \* what deserialize returned: None, Ok(value) or Err(msg)
    json,         \* what serialize handed to the serializer: None or [len, elems]
    debug_str     \* the String Debug::fmt wrote to ("" before it did)

vars == <<ops, cloned_ops, op_strs, result, json, debug_str>>

----------------------------------------------------------------------------
(* Bounds of the model                                                     *)

\* longest Vec<String> drawn as an arbitrary input of deserialize
MaxLen == 3

\* longest Vec<String> a Decode step of the value operations deserializes
MaxDecodeLen == 2

\* how many extra copies of one element are inserted into a decoded input
MaxRepeat == 2

----------------------------------------------------------------------------
(* The u16 representation and the bitflags operations the source uses      *)

U16 == 65536

RECURSIVE BitAnd(_, _)
BitAnd(x, y) ==
    IF x = 0 \/ y = 0 THEN 0
    ELSE (x % 2) * (y % 2) + 2 * BitAnd(x \div 2, y \div 2)

\* a slip that adds the flags instead of or-ing them (wrapping at u16)
BitAdd(x, y) == (x + y) % U16

\* a slip that toggles the flags instead of or-ing them
RECURSIVE BitXor(_, _)
BitXor(x, y) ==
    IF x = 0 THEN y
    ELSE IF y = 0 THEN x
    ELSE ((x + y) % 2) + 2 * BitXor(x \div 2, y \div 2)

RECURSIVE BitOr(_, _)
BitOr(x, y) ==
    IF x = 0 THEN y
    ELSE IF y = 0 THEN x
    ELSE (IF x % 2 = 1 \/ y % 2 = 1 THEN 1 ELSE 0)
         + 2 * BitOr(x \div 2, y \div 2)

RECURSIVE count_ones(_)
count_ones(x) == IF x = 0 THEN 0 ELSE (x % 2) + count_ones(x \div 2)

\* the flags declared by impl_key_ops!( ... )
SIGN        == 1
VERIFY      == 2
ENCRYPT     == 4
DECRYPT     == 8
WRAP_KEY    == 16

\* the flag above pasted without changing its bit
UnwrapKeyPasted == WRAP_KEY

UNWRAP_KEY  == 32
DERIVE_KEY  == 64
DERIVE_BITS == 128

\* the macro's argument list, in declaration order: ($key_op, $const_name)
KeyOpTable ==
    << [key_op |-> "sign",       bits |-> SIGN],
       [key_op |-> "verify",     bits |-> VERIFY],
       [key_op |-> "encrypt",    bits |-> ENCRYPT],
       [key_op |-> "decrypt",    bits |-> DECRYPT],
       [key_op |-> "wrapKey",    bits |-> WRAP_KEY],
       [key_op |-> "unwrapKey",  bits |-> UNWRAP_KEY],
       [key_op |-> "deriveKey",  bits |-> DERIVE_KEY],
       [key_op |-> "deriveBits", bits |-> DERIVE_BITS] >>

NumKeyOps == Len(KeyOpTable)

\* KeyOps::all(): the union of the declared flags
RECURSIVE AllFrom(_)
AllFrom(k) == IF k > NumKeyOps THEN 0 ELSE BitOr(KeyOpTable[k].bits, AllFrom(k + 1))

all == AllFrom(1)

\* #[derive(Default)]: the empty set
default == 0

bits(self) == self

\* a truncation whose mask lost its top declared flag
from_bits_truncate_narrow(b) == BitAnd(b, all \div 2)

from_bits_truncate(b) == BitAnd(b, all)

contains(self, other) == BitAnd(bits(self), bits(other)) = bits(other)

\* impl Clone for KeyOps
clone(self) == from_bits_truncate(bits(self))

\* impl PartialEq for KeyOps
eq(self, other) == bits(self) = bits(other)

----------------------------------------------------------------------------
(* impl Debug for KeyOps: f.debug_set(), one entry per flag present, in    *)
(* the macro's order, then finish().  An entry is a &str, whose Debug is   *)
(* the string in double quotes (no key_op needs an escape).                *)

None == [tag |-> "None"]

StrDebug(s) == "\"" \o s \o "\""

\* DebugSet::entry without the separator between entries
EntryNoSep(buf, has_fields, s) == buf \o StrDebug(s)

\* DebugSet::entry: ", " before every entry but the first, then the entry
Entry(buf, has_fields, s) ==
    buf \o (IF has_fields THEN ", " ELSE "") \o StrDebug(s)

RECURSIVE FmtEntries(_, _, _, _)
FmtEntries(self, k, buf, has_fields) ==
    IF k > NumKeyOps THEN buf
    ELSE IF contains(self, KeyOpTable[k].bits)
         THEN FmtEntries(self, k + 1,
                         Entry(buf, has_fields, KeyOpTable[k].key_op), TRUE)
         ELSE FmtEntries(self, k + 1, buf, has_fields)

fmt(self) == FmtEntries(self, 1, "{", FALSE) \o "}"

----------------------------------------------------------------------------
(* impl Serialize for KeyOps: serialize_seq(Some(count_ones)), one element *)
(* per flag present, in the macro's order, then end().                     *)

RECURSIVE SerElems(_, _, _)
SerElems(self, k, seq) ==
    IF k > NumKeyOps THEN seq
    ELSE IF contains(self, KeyOpTable[k].bits)
         THEN SerElems(self, k + 1, Append(seq, KeyOpTable[k].key_op))
         ELSE SerElems(self, k + 1, seq)

\* a serializer loop that pushes each element in front of the earlier ones
RECURSIVE SerElemsRev(_, _, _)
SerElemsRev(self, k, seq) ==
    IF k > NumKeyOps THEN seq
    ELSE IF contains(self, KeyOpTable[k].bits)
         THEN SerElemsRev(self, k + 1, <<KeyOpTable[k].key_op>> \o seq)
         ELSE SerElemsRev(self, k + 1, seq)

serialize_reversed(self) ==
    [len   |-> count_ones(bits(self)),
     elems |-> SerElemsRev(self, 1, <<>>)]

serialize(self) ==
    [len   |-> count_ones(bits(self)),
     elems |-> SerElems(self, 1, <<>>)]

----------------------------------------------------------------------------
(* impl Deserialize for KeyOps: the Vec<String> is read first, then each   *)
(* op_str is compared with the key_ops in the macro's order; the first     *)
(* match is or-ed into ops and the loop continues, no match returns Err.   *)

Ok(value) == [tag |-> "Ok", value |-> value]
Err(msg)  == [tag |-> "Err", msg |-> msg]

\* the message of de::Error::custom, "invalid key op: " and then the op_str
\* between two backquotes (a character no TLA+ string can hold, hence the
\* record: the text before the quoted part, and the quoted part)
InvalidKeyOp(op_str) == [text |-> "invalid key op: ", quoted |-> op_str]

\* the index of the first key_op equal to op_str, 0 when none is
RECURSIVE MatchFrom(_, _)
MatchFrom(op_str, k) ==
    IF k > NumKeyOps THEN 0
    ELSE IF op_str = KeyOpTable[k].key_op THEN k
    ELSE MatchFrom(op_str, k + 1)

\* a comparison that ignores the case of the first letter
MatchKeyOpFold(op_str) ==
    LET folded == IF op_str = "Sign" THEN "sign" ELSE op_str
    IN  MatchFrom(folded, 1)

MatchKeyOp(op_str) == MatchFrom(op_str, 1)

\* `ops = KeyOps::C` written for `ops |= KeyOps::C`
Assign(acc, c) == c

\* ops |= KeyOps::$const_name
OrAssign(acc, c) == BitOr(acc, c)

RECURSIVE DeLoop(_, _, _)
DeLoop(strs, i, acc) ==
    IF i > Len(strs) THEN Ok(acc)
    ELSE LET k == MatchKeyOp(strs[i])
         IN  IF k # 0
             THEN DeLoop(strs, i + 1, OrAssign(acc, KeyOpTable[k].bits))
             ELSE Err(InvalidKeyOp(strs[i]))

\* a loop that resumes the scan of the key_ops where the last match was
RECURSIVE DeLoopOrdered(_, _, _, _)
DeLoopOrdered(strs, i, acc, from) ==
    IF i > Len(strs) THEN Ok(acc)
    ELSE LET k == MatchFrom(strs[i], from)
         IN  IF k # 0
             THEN DeLoopOrdered(strs, i + 1, OrAssign(acc, KeyOpTable[k].bits), k)
             ELSE Err(InvalidKeyOp(strs[i]))

deserialize_ordered(strs) == DeLoopOrdered(strs, 1, default, 1)

\* a loop that collects the errors and reports the last one
RECURSIVE DeLoopLast(_, _, _, _)
DeLoopLast(strs, i, acc, err) ==
    IF i > Len(strs) THEN (IF err = None THEN Ok(acc) ELSE err)
    ELSE LET k == MatchKeyOp(strs[i])
         IN  IF k # 0
             THEN DeLoopLast(strs, i + 1, OrAssign(acc, KeyOpTable[k].bits), err)
             ELSE DeLoopLast(strs, i + 1, acc, Err(InvalidKeyOp(strs[i])))

deserialize_last_error(strs) == DeLoopLast(strs, 1, default, None)

deserialize(strs) == DeLoop(strs, 1, default)

----------------------------------------------------------------------------
(* The inputs the model draws                                              *)

\* the strings an input element is drawn from: the eight key_ops, one of
\* them in another case, and two that are no key_op (tests::deserialize_invalid)
Alphabet ==
    {"sign", "verify", "encrypt", "decrypt",
     "wrapKey", "unwrapKey", "deriveKey", "deriveBits",
     "Sign", "unknown", "bogus"}

\* every Vec<String> over Alphabet of at most MaxLen elements
Inputs == UNION {[1..n -> Alphabet] : n \in 0..MaxLen}

\* every KeyOps value the declared flags can form
KeyOpsValues == 0..all

\* what deserialize returns on the inputs of at most MaxDecodeLen elements
DecodeResults ==
    {deserialize(strs) : strs \in {L \in Inputs : Len(L) <= MaxDecodeLen}}

----------------------------------------------------------------------------
(* The value operations: construction, union, clone                        *)

Init ==
    /\ ops = default
    /\ cloned_ops = default
    /\ op_strs = <<>>
    /\ result = None
    /\ json = None
    /\ debug_str = ""

\* KeyOps::default()
NewDefault ==
    /\ ops' = default
    /\ UNCHANGED <<cloned_ops, op_strs, result, json, debug_str>>

\* KeyOps::$const_name
NewConst(k) ==
    /\ ops' = KeyOpTable[k].bits
    /\ UNCHANGED <<cloned_ops, op_strs, result, json, debug_str>>

\* ops |= KeyOps::$const_name
BitOrAssign(k) ==
    /\ ops' = OrAssign(ops, KeyOpTable[k].bits)
    /\ UNCHANGED <<cloned_ops, op_strs, result, json, debug_str>>

\* ops = ops | cloned_ops
BitOrValues ==
    /\ ops' = BitOr(ops, cloned_ops)
    /\ UNCHANGED <<cloned_ops, op_strs, result, json, debug_str>>

\* cloned_ops = ops.clone()
Clone ==
    /\ cloned_ops' = clone(ops)
    /\ UNCHANGED <<ops, op_strs, result, json, debug_str>>

\* cloned_ops |= KeyOps::$const_name
ClonedBitOrAssign(k) ==
    /\ cloned_ops' = OrAssign(cloned_ops, KeyOpTable[k].bits)
    /\ UNCHANGED <<ops, op_strs, result, json, debug_str>>

\* ops = <the KeyOps of a successful deserialize>
Decode ==
    /\ \E r \in DecodeResults :
          /\ r.tag = "Ok"
          /\ ops' = r.value
    /\ UNCHANGED <<cloned_ops, op_strs, result, json, debug_str>>

Next ==
    \/ NewDefault
    \/ \E k \in 1..NumKeyOps : NewConst(k)
    \/ \E k \in 1..NumKeyOps : BitOrAssign(k)
    \/ BitOrValues
    \/ Clone
    \/ \E k \in 1..NumKeyOps : ClonedBitOrAssign(k)
    \/ Decode

Spec == Init /\ [][Next]_vars

----------------------------------------------------------------------------
(* Serialize, Debug and Deserialize applied to a value and to an input     *)

\* a value to encode (every set of flags), or an input to decode
InitSerde ==
    /\ \/ ops \in KeyOpsValues /\ op_strs = <<>>
       \/ ops = default /\ op_strs \in Inputs
    /\ cloned_ops = default
    /\ result = None
    /\ json = None
    /\ debug_str = ""

\* ops.serialize(s)
Serialize ==
    /\ json' = serialize(ops)
    /\ UNCHANGED <<ops, cloned_ops, op_strs, result, debug_str>>

\* format!("{:?}", ops)
Debug ==
    /\ debug_str' = fmt(ops)
    /\ UNCHANGED <<ops, cloned_ops, op_strs, result, json>>

\* KeyOps::deserialize(d), d holding the input
Deserialize ==
    /\ result = None
    /\ result' = deserialize(op_strs)
    /\ UNCHANGED <<ops, cloned_ops, op_strs, json, debug_str>>

\* KeyOps::deserialize(d), d holding what serialize emitted
DeserializeJson ==
    /\ json # None
    /\ op_strs' = json.elems
    /\ result' = deserialize(json.elems)
    /\ UNCHANGED <<ops, cloned_ops, json, debug_str>>

\* ops = result?  (only an Ok carries a KeyOps)
Unwrap ==
    /\ result # None
    /\ result.tag = "Ok"
    /\ ops' = result.value
    /\ UNCHANGED <<cloned_ops, op_strs, result, json, debug_str>>

NextSerde ==
    \/ Serialize
    \/ Debug
    \/ Deserialize
    \/ DeserializeJson
    \/ Unwrap

SpecSerde == InitSerde /\ [][NextSerde]_vars

----------------------------------------------------------------------------
(* What the properties are stated with: the wire spellings and the bit     *)
(* positions as the documentation lists them, written out independently of *)
(* KeyOpTable.                                                             *)

DeclOrder ==
    <<"sign", "verify", "encrypt", "decrypt",
      "wrapKey", "unwrapKey", "deriveKey", "deriveBits">>

WireSpellings == {DeclOrder[i] : i \in DOMAIN DeclOrder}

\* operation number i (bit position i - 1) is present in the bit mask S
Has(S, i) == (S \div (2 ^ (i - 1))) % 2 = 1

Popcount(S) == Cardinality({i \in DOMAIN DeclOrder : Has(S, i)})

\* the spellings of the operations present in S, in declaration order
RECURSIVE CanonFrom(_, _)
CanonFrom(S, i) ==
    IF i > Len(DeclOrder) THEN <<>>
    ELSE (IF Has(S, i) THEN <<DeclOrder[i]>> ELSE <<>>) \o CanonFrom(S, i + 1)

Canon(S) == CanonFrom(S, 1)

Range(L) == {L[i] : i \in DOMAIN L}

AllRecognized(L) == Range(L) \subseteq WireSpellings

\* the distinct elements of L, rearranged into declaration order
RECURSIVE DistinctFrom(_, _)
DistinctFrom(L, i) ==
    IF i > Len(DeclOrder) THEN <<>>
    ELSE (IF DeclOrder[i] \in Range(L) THEN <<DeclOrder[i]>> ELSE <<>>)
         \o DistinctFrom(L, i + 1)

\* L without the later occurrences of an element
RECURSIVE Dedup(_)
Dedup(L) ==
    IF L = <<>> THEN <<>>
    ELSE LET front == Dedup(SubSeq(L, 1, Len(L) - 1))
             last  == L[Len(L)]
         IN  IF last \in Range(front) THEN front ELSE Append(front, last)

\* n copies of s
RECURSIVE Copies(_, _)
Copies(s, n) == IF n = 0 THEN <<>> ELSE <<s>> \o Copies(s, n - 1)

\* L with n more copies of its element i inserted after position j
WithRepeats(L, i, n, j) ==
    SubSeq(L, 1, j) \o Copies(L[i], n) \o SubSeq(L, j + 1, Len(L))

\* the longest input whose every permutation is tried
MaxPermLen == 4

Perms == [n \in 0..MaxPermLen |->
            {p \in [1..n -> 1..n] : \A i, j \in 1..n : p[i] = p[j] => i = j}]

Permuted(L, p) == [i \in DOMAIN L |-> L[p[i]]]

\* "{" then the quoted names joined by ", " then "}"
RECURSIVE Joined(_, _)
Joined(names, i) ==
    IF i > Len(names) THEN ""
    ELSE (IF i > 1 THEN ", " ELSE "") \o "\"" \o names[i] \o "\""
         \o Joined(names, i + 1)

SetLiteral(names) == "{" \o Joined(names, 1) \o "}"

----------------------------------------------------------------------------
(* The properties                                                          *)

\* C1 (round trip): whenever the input of deserialize is what serialize
\* emitted for the value ops, deserialize returns Ok with a value equal to ops.
C1_RoundTrip ==
    (/\ json # None
     /\ json = serialize(ops)
     /\ op_strs = json.elems
     /\ result # None)
    => (result.tag = "Ok" /\ eq(result.value, ops) /\ result = Ok(ops))

\* the set of all eight operations has gone through serialize and deserialize
C1_Witness ==
    /\ ops = 255
    /\ json # None
    /\ Len(op_strs) = 8
    /\ op_strs = json.elems
    /\ result = Ok(255)

\* C2 (canonical encoding): a serialize step emits exactly the spellings of
\* the operations present, each once, in declaration order; the length it
\* announces and the number of elements both equal the number of set bits,
\* and the empty set emits the empty sequence.
C2_CanonicalEncoding ==
    [][Serialize =>
         /\ json'.elems = Canon(ops)
         /\ Len(json'.elems) = Popcount(ops)
         /\ json'.len = Popcount(ops)
         /\ \A i, j \in DOMAIN json'.elems :
               json'.elems[i] = json'.elems[j] => i = j
         /\ (ops = 0 => json'.elems = <<>>)]_vars

\* tests::serialize: SIGN | DERIVE_BITS was serialized
C2_Witness ==
    /\ ops = 129
    /\ json = [len |-> 2, elems |-> <<"sign", "deriveBits">>]

\* C3 (rejection): deserialize returns Err, carrying no KeyOps, exactly when
\* some element of the input is not one of the eight wire spellings.
C3_Rejection ==
    result # None =>
        /\ (result.tag = "Err") <=> ~AllRecognized(op_strs)
        /\ (result.tag = "Ok") <=> AllRecognized(op_strs)
        /\ result.tag = "Err" => "value" \notin DOMAIN result
        /\ result.tag = "Err" => ~ENABLED Unwrap

\* a valid element before the invalid one: still an error
C3_Witness ==
    /\ op_strs = <<"sign", "bogus">>
    /\ result # None
    /\ result.tag = "Err"

\* C4 (first error): a failed deserialize reports the first unrecognized
\* element of the input, and returns what it returns on the input cut right
\* after that element (nothing behind it has a say).
C4_FirstError ==
    (result # None /\ result.tag = "Err") =>
        \E k \in DOMAIN op_strs :
            /\ op_strs[k] \notin WireSpellings
            /\ \A j \in 1..(k - 1) : op_strs[j] \in WireSpellings
            /\ result.msg = [text |-> "invalid key op: ", quoted |-> op_strs[k]]
            /\ result = deserialize(SubSeq(op_strs, 1, k))

\* two unrecognized elements: the first is the one reported
C4_Witness ==
    /\ op_strs = <<"sign", "bogus", "unknown">>
    /\ result = Err([text |-> "invalid key op: ", quoted |-> "bogus"])

\* C5 (order-insensitive decode): a deserialize step on an input of
\* recognized spellings (of at most MaxPermLen elements) succeeds, and
\* deserialize returns the same on every permutation of that input.
C5_OrderInsensitive ==
    [][((Deserialize \/ DeserializeJson)
        /\ AllRecognized(op_strs')
        /\ Len(op_strs') <= MaxPermLen)
       => /\ result'.tag = "Ok"
          /\ \A p \in Perms[Len(op_strs')] :
                deserialize(Permuted(op_strs', p)) = result']_vars

\* ["verify","sign"] decoded to the set ["sign","verify"] decodes to
C5_Witness ==
    /\ op_strs = <<"verify", "sign">>
    /\ result = Ok(3)

\* C6 (duplicate tolerance): a deserialize step on an input of recognized
\* spellings succeeds, and deserialize returns the same on the input without
\* its duplicates and (for an input of at most MaxLen elements) on the input
\* with up to MaxRepeat more copies of any of its elements, inserted right
\* after that element or at the end.
C6_DuplicateTolerance ==
    [][((Deserialize \/ DeserializeJson) /\ AllRecognized(op_strs'))
       => /\ result'.tag = "Ok"
          /\ deserialize(Dedup(op_strs')) = result'
          /\ Len(op_strs') <= MaxLen =>
               \A i \in DOMAIN op_strs' : \A n \in 1..MaxRepeat :
                  \A j \in {i, Len(op_strs')} :
                     deserialize(WithRepeats(op_strs', i, n, j)) = result']_vars

\* ["sign","sign"] decoded to the set holding sign alone
C6_Witness ==
    /\ op_strs = <<"sign", "sign">>
    /\ result = Ok(1)

\* C7 (reserved bits): whatever the construction, union, clone and
\* deserialize steps taken, no KeyOps value has a bit set outside the bit
\* positions 0..7: bits() is in 0..255.
C7_ReservedBits ==
    /\ bits(ops) \in 0..255
    /\ bits(cloned_ops) \in 0..255

\* both values hold all eight operations
C7_Witness ==
    /\ ops = 255
    /\ cloned_ops = 255

\* C8 (Debug format): a Debug step writes "{", the double-quoted spellings of
\* exactly the operations present, in declaration order, separated by ", ",
\* and "}": the names serialize emits for the same value, in the same order.
C8_DebugFormat ==
    [][Debug =>
         /\ debug_str' = SetLiteral(Canon(ops))
         /\ debug_str' = SetLiteral(serialize(ops).elems)
         /\ (ops = 0 => debug_str' = "{}")
         /\ (ops = 133 =>
               debug_str' = "{\"sign\", \"encrypt\", \"deriveBits\"}")]_vars

\* tests::debug: SIGN | ENCRYPT | DERIVE_BITS was formatted
C8_Witness ==
    /\ ops = 133
    /\ debug_str = "{\"sign\", \"encrypt\", \"deriveBits\"}"

\* C9 (copy and equality): a clone step yields a value equal to the original
\* and leaves the original alone; two values are equal exactly when their
\* bits are; and no step changes both values: a union applied to one of them
\* leaves the other's bits as they were.
C9_CopyEquality ==
    [][/\ Clone => (eq(cloned_ops', ops) /\ ops' = ops)
       /\ eq(ops', cloned_ops') <=> (bits(ops') = bits(cloned_ops'))
       /\ bits(ops') # bits(ops) => bits(cloned_ops') = bits(cloned_ops)
       /\ bits(cloned_ops') # bits(cloned_ops) => bits(ops') = bits(ops)]_vars

\* {sign, verify} was cloned, then encrypt was added to the original only
C9_Witness ==
    /\ ops = 7
    /\ cloned_ops = 3
    /\ ~eq(ops, cloned_ops)

\* C10 (decode membership and normalisation): on an input of recognized
\* spellings deserialize succeeds with the set that holds an operation
\* exactly when its spelling occurs in the input (the empty input gives the
\* default set); serializing that set gives the distinct elements of the
\* input in declaration order, and decoding and encoding that again gives
\* the same.
C10_DecodeMembership ==
    (result # None /\ AllRecognized(op_strs)) =>
        /\ result.tag = "Ok"
        /\ \A i \in DOMAIN DeclOrder :
              Has(result.value, i) <=> DeclOrder[i] \in Range(op_strs)
        /\ (op_strs = <<>> => result.value = 0)
        /\ serialize(result.value).elems = DistinctFrom(op_strs, 1)
        /\ LET w == serialize(result.value)
               again == deserialize(w.elems)
           IN  /\ again.tag = "Ok"
               /\ serialize(again.value) = w

\* an input out of order and with a repeat, decoded and then encoded
C10_Witness ==
    /\ op_strs = <<"verify", "sign", "verify">>
    /\ result = Ok(3)
    /\ ops = 3
    /\ json = [len |-> 2, elems |-> <<"sign", "verify">>]

====
